---- MODULE Spec2Model ----
(***************************************************************************)
(* Coursework planner / deadline tracker (src/app.py).                     *)
(*                                                                         *)
(* Text values are sequences of one-character strings, so that strip(),    *)
(* strptime() and SQLite's text ordering are computed on the characters.   *)
(* A datetime is a record [date |-> proleptic ordinal, sec |-> second of   *)
(* the day]; a date is its ordinal.                                        *)
(***************************************************************************)
EXTENDS Integers, Sequences, FiniteSets, TLC

VARIABLES tasks, clock, resp

vars == <<tasks, clock, resp>>

----------------------------------------------------------------------------
(* Bounds of the model.                                                    *)

\* rows the tasks table may hold (row ids 1..MaxTasks)
MaxTasks == 2

\* the clock takes the instants ClockAt(0) .. ClockAt(MaxClock)
MaxClock == 1

----------------------------------------------------------------------------
(* Characters and text.                                                    *)

\* the value of a failed parse (Python's None, or a raised ValueError)
None == [none |-> TRUE]

Digits == {"0", "1", "2", "3", "4", "5", "6", "7", "8", "9"}

DigitVal(c) ==
    CASE c = "0" -> 0 [] c = "1" -> 1 [] c = "2" -> 2 [] c = "3" -> 3
      [] c = "4" -> 4 [] c = "5" -> 5 [] c = "6" -> 6 [] c = "7" -> 7
      [] c = "8" -> 8 [] c = "9" -> 9

\* code point of a character, for the characters the inputs use
Ord(c) ==
    CASE c = " " -> 32
      [] c = "-" -> 45
      [] c \in Digits -> 48 + DigitVal(c)
      [] c = ":" -> 58
      [] c = "A" -> 65 [] c = "C" -> 67 [] c = "E" -> 69 [] c = "H" -> 72
      [] c = "L" -> 76 [] c = "M" -> 77 [] c = "Q" -> 81 [] c = "S" -> 83
      [] c = "U" -> 85
      [] c = "a" -> 97 [] c = "d" -> 100 [] c = "e" -> 101 [] c = "g" -> 103
      [] c = "h" -> 104 [] c = "i" -> 105 [] c = "m" -> 109 [] c = "n" -> 110
      [] c = "o" -> 111 [] c = "r" -> 114 [] c = "s" -> 115 [] c = "t" -> 116
      [] c = "u" -> 117 [] c = "w" -> 119 [] c = "y" -> 121 [] c = "z" -> 122

SetMin(S) == CHOOSE x \in S : \A y \in S : x <= y

SetMax(S) == CHOOSE x \in S : \A y \in S : y <= x

AllDigits(x) == \A i \in 1..Len(x) : x[i] \in Digits

\* decimal value of a digit string
RECURSIVE NumVal(_)
NumVal(x) ==
    IF Len(x) = 0 THEN 0
    ELSE 10 * NumVal(SubSeq(x, 1, Len(x) - 1)) + DigitVal(x[Len(x)])

\* str.strip(): leading and trailing whitespace removed
Strip(s) ==
    LET keep == {i \in 1..Len(s) : s[i] # " "}
    IN  IF keep = {} THEN << >> ELSE SubSeq(s, SetMin(keep), SetMax(keep))

\* the order of TEXT values under SQLite's BINARY collation, and of str in Python
StrLess(a, b) ==
    \/ \E i \in 1..Len(a) :
          /\ i <= Len(b)
          /\ \A j \in 1..(i - 1) : a[j] = b[j]
          /\ Ord(a[i]) < Ord(b[i])
    \/ /\ Len(a) < Len(b)
       /\ \A j \in 1..Len(a) : a[j] = b[j]

----------------------------------------------------------------------------
(* datetime.strptime, for the directives the program uses.                 *)

\* %H  2[0-3]|[0-1]\d|\d
MatchH(x) ==
    /\ AllDigits(x)
    /\ \/ Len(x) = 1
       \/ /\ Len(x) = 2
          /\ \/ x[1] \in {"0", "1"}
             \/ x[1] = "2" /\ x[2] \in {"0", "1", "2", "3"}

\* %M  [0-5]\d|\d
MatchM(x) ==
    /\ AllDigits(x)
    /\ \/ Len(x) = 1
       \/ Len(x) = 2 /\ x[1] \in {"0", "1", "2", "3", "4", "5"}

\* %Y  \d\d\d\d
MatchY(x) == Len(x) = 4 /\ AllDigits(x)

\* %m  1[0-2]|0[1-9]|[1-9]
MatchMonth(x) ==
    /\ AllDigits(x)
    /\ \/ Len(x) = 1 /\ x[1] # "0"
       \/ /\ Len(x) = 2
          /\ \/ x[1] = "1" /\ x[2] \in {"0", "1", "2"}
             \/ x[1] = "0" /\ x[2] # "0"

\* %d  3[01]|[12]\d|0[1-9]|[1-9]| [1-9]
MatchDay(x) ==
    \/ /\ AllDigits(x)
       /\ \/ Len(x) = 1 /\ x[1] # "0"
          \/ /\ Len(x) = 2
             /\ \/ x[1] = "3" /\ x[2] \in {"0", "1"}
                \/ x[1] \in {"1", "2"}
                \/ x[1] = "0" /\ x[2] # "0"
    \/ Len(x) = 2 /\ x[1] = " " /\ x[2] \in Digits \ {"0"}

IsLeap(y) == y % 4 = 0 /\ (y % 100 # 0 \/ y % 400 = 0)

DaysInMonth(y, m) ==
    IF m = 2 THEN (IF IsLeap(y) THEN 29 ELSE 28)
    ELSE IF m \in {4, 6, 9, 11} THEN 30 ELSE 31

RECURSIVE DaysBeforeMonth(_, _)
DaysBeforeMonth(y, m) ==
    IF m = 1 THEN 0 ELSE DaysBeforeMonth(y, m - 1) + DaysInMonth(y, m - 1)

\* date.toordinal(): 0001-01-01 is day 1
Ymd2Ord(y, m, d) ==
    LET p == y - 1
    IN  p * 365 + (p \div 4) - (p \div 100) + (p \div 400)
          + DaysBeforeMonth(y, m) + d

\* strptime(t, "%H:%M"): [sec |-> second of the day], or None where Python raises
StrptimeHM(t) ==
    LET cut == {i \in 1..Len(t) :
                   /\ t[i] = ":"
                   /\ MatchH(SubSeq(t, 1, i - 1))
                   /\ MatchM(SubSeq(t, i + 1, Len(t)))}
    IN  IF cut = {} THEN None
        ELSE LET i == SetMin(cut)
             IN  [sec |-> NumVal(SubSeq(t, 1, i - 1)) * 3600
                              + NumVal(SubSeq(t, i + 1, Len(t))) * 60]

\* the "%Y-%m-%d" part: [date |-> ordinal of the date], or None
StrptimeYmd(x) ==
    LET cut == {j \in 7..Len(x) :
                   /\ x[5] = "-"
                   /\ x[j] = "-"
                   /\ MatchY(SubSeq(x, 1, 4))
                   /\ MatchMonth(SubSeq(x, 6, j - 1))
                   /\ MatchDay(SubSeq(x, j + 1, Len(x)))}
    IN  IF cut = {} THEN None
        ELSE LET j == SetMin(cut)
                 y == NumVal(SubSeq(x, 1, 4))
                 m == NumVal(SubSeq(x, 6, j - 1))
                 d == NumVal(Strip(SubSeq(x, j + 1, Len(x))))
             IN  IF y >= 1 /\ d <= DaysInMonth(y, m)
                 THEN [date |-> Ymd2Ord(y, m, d)]
                 ELSE None

\* strptime(s, "%Y-%m-%d %H:%M"): the blank of the format matches \s+
StrptimeYmdHM(s) ==
    LET cut == {p \in (1..Len(s)) \X (1..Len(s)) :
                   /\ p[1] <= p[2]
                   /\ \A k \in p[1]..p[2] : s[k] = " "
                   /\ StrptimeYmd(SubSeq(s, 1, p[1] - 1)) # None
                   /\ StrptimeHM(SubSeq(s, p[2] + 1, Len(s))) # None}
    IN  IF cut = {} THEN None
        ELSE LET p == CHOOSE q \in cut : TRUE
             IN  [date |-> StrptimeYmd(SubSeq(s, 1, p[1] - 1)).date,
                  sec  |-> StrptimeHM(SubSeq(s, p[2] + 1, Len(s))).sec]

\* dt1 < dt2 on datetimes
DtLess(a, b) == a.date < b.date \/ (a.date = b.date /\ a.sec < b.sec)

----------------------------------------------------------------------------
(* Text constants of the program.                                          *)

sEmpty == << >>

sLow == <<"L", "o", "w">>

sMedium == <<"M", "e", "d", "i", "u", "m">>

sHigh == <<"H", "i", "g", "h">>

s2359 == <<"2", "3", ":", "5", "9">>

Priorities == {sLow, sMedium, sHigh}

Statuses == {"To do", "In progress", "Completed"}

NoUser == 0

NoFlash == "(none)"

FlashRequired == "Module, Title and Due Date are required."

FlashRequiredEdit == "Module, Title and Due Date are required to edit a task."

FlashInvalid == "Invalid deadline. Please use the date/time pickers."

FlashAdded == "Task added!"

FlashNotPermitted == "Task not found or you don't have permission to edit it."

FlashUpdated == "Task updated successfully!"

FlashDeleted == "Task deleted."

FlashStatus == "Status updated."

----------------------------------------------------------------------------
(* General helpers.                                                        *)

\* normalize_priority
NormalizePriority(p) == IF p \in Priorities THEN p ELSE sMedium

\* faulty variant of normalize_time_hhmm: a time that does not parse is kept
NormalizeTimeKeepInvalid(t) ==
    IF t = sEmpty THEN s2359 ELSE t

\* normalize_time_hhmm
NormalizeTimeHHMM(t) ==
    IF t = sEmpty THEN s2359
    ELSE IF StrptimeHM(t) # None THEN t ELSE s2359

\* parse_due_datetime
ParseDueDatetime(due_date_str, due_time_str) ==
    IF due_date_str = sEmpty THEN None
    ELSE StrptimeYmdHM(due_date_str \o <<" ">> \o NormalizeTimeHHMM(due_time_str))

\* faulty variant of the priority rule: the higher of the stored and the
\* automatic priority instead of the automatic one
PriorityRuleMax(pr, due_dt, status, now, today) ==
    IF status = "Completed" THEN [priority |-> pr, auto |-> FALSE]
    ELSE IF due_dt = None THEN [priority |-> pr, auto |-> FALSE]
    ELSE IF DtLess(due_dt, now) THEN [priority |-> sHigh, auto |-> TRUE]
    ELSE IF due_dt.date = today THEN [priority |-> sHigh, auto |-> TRUE]
    ELSE IF 1 <= due_dt.date - today /\ due_dt.date - today <= 3
         THEN IF pr = sHigh THEN [priority |-> sHigh, auto |-> FALSE]
              ELSE [priority |-> sMedium, auto |-> TRUE]
    ELSE [priority |-> pr, auto |-> FALSE]

\* effective_priority, from the normalised stored priority and the parsed
\* due moment on
PriorityRule(pr, due_dt, status, now, today) ==
    IF status = "Completed" THEN [priority |-> pr, auto |-> FALSE]
    ELSE IF due_dt = None THEN [priority |-> pr, auto |-> FALSE]
    ELSE IF DtLess(due_dt, now) THEN [priority |-> sHigh, auto |-> TRUE]
    ELSE IF due_dt.date = today THEN [priority |-> sHigh, auto |-> TRUE]
    ELSE IF 1 <= due_dt.date - today /\ due_dt.date - today <= 3
         THEN [priority |-> sMedium, auto |-> TRUE]
    ELSE [priority |-> pr, auto |-> FALSE]

\* effective_priority; now and today are its two readings of the clock
\* (datetime.now(), then date.today())
EffectivePriority(due_date_str, due_time_str, status, stored_priority, now, today) ==
    PriorityRule(NormalizePriority(stored_priority),
                 ParseDueDatetime(due_date_str, due_time_str),
                 status, now, today)

----------------------------------------------------------------------------
(* The tasks table: a function from row ids to rows.                       *)

\* the rowid SQLite gives an inserted row
NewRowId(store) == IF DOMAIN store = {} THEN 1 ELSE SetMax(DOMAIN store) + 1

\* WHERE id = ? AND user_id = ?
Matches(store, task_id, user) ==
    task_id \in DOMAIN store /\ store[task_id].user_id = user

\* a handler's outcome: the table after it, the flashed notice, the redirect
Outcome(store, flash, redirect) ==
    [tasks |-> store, flash |-> flash, redirect |-> redirect]

\* the row a submitted form makes, and the table with it inserted
FormRow(now, user, form) ==
    [user_id     |-> user,
     module_name |-> Strip(form.module_name),
     title       |-> Strip(form.title),
     description |-> Strip(form.description),
     due_date    |-> Strip(form.due_date),
     due_time    |-> NormalizeTimeHHMM(Strip(form.due_time)),
     status      |-> "To do",
     created_at  |-> now,
     priority    |-> NormalizePriority(Strip(form.priority))]

Inserted(store, row) ==
    [i \in DOMAIN store \cup {NewRowId(store)} |->
        IF i \in DOMAIN store THEN store[i] ELSE row]

\* faulty variant of the create branch: the deadline is not checked to parse
DashboardPostUnparsed(store, now, user, form) ==
    LET row == FormRow(now, user, form)
    IN  IF user = NoUser THEN Outcome(store, NoFlash, "login")
        ELSE IF row.module_name = sEmpty \/ row.title = sEmpty \/ row.due_date = sEmpty
             THEN Outcome(store, FlashRequired, "dashboard")
        ELSE Outcome(Inserted(store, row), FlashAdded, "dashboard")

\* faulty variant of the create branch: the module is not required
DashboardPostAnyModule(store, now, user, form) ==
    LET row == FormRow(now, user, form)
    IN  IF user = NoUser THEN Outcome(store, NoFlash, "login")
        ELSE IF row.title = sEmpty \/ row.due_date = sEmpty
             THEN Outcome(store, FlashRequired, "dashboard")
        ELSE IF ParseDueDatetime(row.due_date, row.due_time) = None
             THEN Outcome(store, FlashInvalid, "dashboard")
        ELSE Outcome(Inserted(store, row), FlashAdded, "dashboard")

\* dashboard, POST: create a new task
DashboardPost(store, now, user, form) ==
    LET row == FormRow(now, user, form)
    IN  IF user = NoUser THEN Outcome(store, NoFlash, "login")
        ELSE IF row.module_name = sEmpty \/ row.title = sEmpty \/ row.due_date = sEmpty
             THEN Outcome(store, FlashRequired, "dashboard")
        ELSE IF ParseDueDatetime(row.due_date, row.due_time) = None
             THEN Outcome(store, FlashInvalid, "dashboard")
        ELSE Outcome(Inserted(store, row), FlashAdded, "dashboard")

\* faulty variant of edit_task: the update also resets the status
EditTaskResetsStatus(store, user, task_id, form) ==
    LET row == FormRow(None, user, form)
    IN  IF user = NoUser THEN Outcome(store, NoFlash, "login")
        ELSE IF row.module_name = sEmpty \/ row.title = sEmpty \/ row.due_date = sEmpty
             THEN Outcome(store, FlashRequiredEdit, "dashboard")
        ELSE IF ParseDueDatetime(row.due_date, row.due_time) = None
             THEN Outcome(store, FlashInvalid, "dashboard")
        ELSE Outcome([i \in DOMAIN store |->
                         IF Matches(store, i, user) /\ i = task_id
                         THEN [row EXCEPT !.created_at = store[i].created_at]
                         ELSE store[i]],
                     IF Matches(store, task_id, user)
                     THEN FlashUpdated ELSE FlashNotPermitted,
                     "dashboard")

\* edit_task
EditTask(store, user, task_id, form) ==
    LET module_name == Strip(form.module_name)
        title       == Strip(form.title)
        due_date    == Strip(form.due_date)
        due_time    == NormalizeTimeHHMM(Strip(form.due_time))
        description == Strip(form.description)
        priority    == NormalizePriority(Strip(form.priority))
        rowcount    == IF Matches(store, task_id, user) THEN 1 ELSE 0
        updated     == [i \in DOMAIN store |->
                          IF Matches(store, i, user) /\ i = task_id
                          THEN [store[i] EXCEPT !.module_name = module_name,
                                                !.title = title,
                                                !.due_date = due_date,
                                                !.due_time = due_time,
                                                !.description = description,
                                                !.priority = priority]
                          ELSE store[i]]
    IN  IF user = NoUser THEN Outcome(store, NoFlash, "login")
        ELSE IF module_name = sEmpty \/ title = sEmpty \/ due_date = sEmpty
             THEN Outcome(store, FlashRequiredEdit, "dashboard")
        ELSE IF ParseDueDatetime(due_date, due_time) = None
             THEN Outcome(store, FlashInvalid, "dashboard")
        ELSE IF rowcount = 0
             THEN Outcome(updated, FlashNotPermitted, "dashboard")
        ELSE Outcome(updated, FlashUpdated, "dashboard")

\* faulty variant of delete_task: DELETE ... WHERE id = ? alone
DeleteTaskAnyOwner(store, user, task_id) ==
    IF user = NoUser THEN Outcome(store, NoFlash, "login")
    ELSE Outcome([i \in DOMAIN store \ {task_id} |-> store[i]],
                 FlashDeleted, "dashboard")

\* delete_task
DeleteTask(store, user, task_id) ==
    IF user = NoUser THEN Outcome(store, NoFlash, "login")
    ELSE Outcome([i \in {j \in DOMAIN store : ~Matches(store, j, user) \/ j # task_id}
                     |-> store[i]],
                 FlashDeleted, "dashboard")

\* update_status
UpdateStatus(store, user, task_id, status) ==
    LET new_status == IF status \in Statuses THEN status ELSE "To do"
    IN  IF user = NoUser THEN Outcome(store, NoFlash, "login")
        ELSE Outcome([i \in DOMAIN store |->
                         IF Matches(store, i, user) /\ i = task_id
                         THEN [store[i] EXCEPT !.status = new_status]
                         ELSE store[i]],
                     FlashStatus, "dashboard")

----------------------------------------------------------------------------
(* The clock.                                                              *)

\* the instants the clock takes: 2026-11-06 23:59:30, then every 30 s
ClockAt(k) ==
    LET s == 86370 + 30 * k
    IN  [date |-> Ymd2Ord(2026, 11, 6) + (s \div 86400), sec |-> s % 86400]

\* the readings of the clock a handler makes when it reads it n times, the
\* clock standing at k when the handler starts: equal or later at each
\* reading (the clock moves at most once while a handler runs)
Readings(k, n) ==
    {[i \in 1..n |-> IF i <= p THEN k ELSE k2] : p \in 0..n, k2 \in k..MaxClock}

----------------------------------------------------------------------------
(* The views.                                                              *)

\* position of row i in ORDER BY due_date ASC, due_time ASC; rows equal in
\* both columns come out in rowid order (the order SQLite scans them in)
OrderedBefore(store, i, j) ==
    \/ StrLess(store[i].due_date, store[j].due_date)
    \/ /\ store[i].due_date = store[j].due_date
       /\ StrLess(store[i].due_time, store[j].due_time)
    \/ /\ store[i].due_date = store[j].due_date
       /\ store[i].due_time = store[j].due_time
       /\ i < j

\* dashboard: SELECT * FROM tasks WHERE user_id = ? ORDER BY due_date ASC,
\* due_time ASC, as the sequence of the row ids
SelectDashboard(store, user) ==
    LET own == {i \in DOMAIN store : store[i].user_id = user}
    IN  [k \in 1..Cardinality(own) |->
            CHOOSE i \in own :
               Cardinality({j \in own : OrderedBefore(store, j, i)}) = k - 1]

\* export_csv: SELECT ... FROM tasks WHERE user_id = ? ORDER BY due_date ASC,
\* due_time ASC, as the sequence of the row ids
SelectExport(store, user) ==
    LET own == {i \in DOMAIN store : store[i].user_id = user}
        before(j, i) ==
            \/ StrLess(store[j].due_date, store[i].due_date)
            \/ /\ store[j].due_date = store[i].due_date
               /\ \/ StrLess(store[j].due_time, store[i].due_time)
                  \/ store[j].due_time = store[i].due_time /\ j < i
    IN  [k \in 1..Cardinality(own) |->
            CHOOSE i \in own : Cardinality({j \in own : before(j, i)}) = k - 1]

\* faulty variant of the chain of checks: due today is tested before overdue
ClassifyDeadlineTodayFirst(due_dt, status, now, today) ==
    IF status = "Completed" THEN "completed"
    ELSE IF due_dt # None /\ due_dt.date = today THEN "due_today"
    ELSE IF due_dt # None /\ DtLess(due_dt, now) THEN "overdue"
    ELSE IF due_dt # None /\ 0 < due_dt.date - today /\ due_dt.date - today <= 3
         THEN "due_soon"
    ELSE "normal"

\* dashboard: the chain of checks that sets deadline_state
ClassifyDeadline(due_dt, status, now, today) ==
    IF status = "Completed" THEN "completed"
    ELSE IF due_dt # None /\ DtLess(due_dt, now) THEN "overdue"
    ELSE IF due_dt # None /\ due_dt.date = today THEN "due_today"
    ELSE IF due_dt # None /\ 0 < due_dt.date - today /\ due_dt.date - today <= 3
         THEN "due_soon"
    ELSE "normal"

\* dashboard: the deadline state of a row (time-aware)
DeadlineState(row, now, today) ==
    ClassifyDeadline(
        ParseDueDatetime(row.due_date, NormalizeTimeHHMM(row.due_time)),
        row.status, now, today)

\* dashboard: the view of one row; epnow and eptoday are the readings of the
\* clock made by effective_priority for this row
TaskView(store, i, now, today, epnow, eptoday) ==
    LET row      == store[i]
        due_time == NormalizeTimeHHMM(row.due_time)
        eff      == EffectivePriority(row.due_date, due_time, row.status,
                                      row.priority, epnow, eptoday)
    IN  [id              |-> i,
         module_name     |-> row.module_name,
         title           |-> row.title,
         status          |-> row.status,
         due_date        |-> row.due_date,
         due_time        |-> due_time,
         deadline_state  |-> DeadlineState(row, now, today),
         priority_stored |-> NormalizePriority(row.priority),
         priority        |-> eff.priority,
         priority_auto   |-> eff.auto]

\* round(): to the nearest integer, a half to the even one
RoundPercent(completed, total) ==
    LET q == (100 * completed) \div total
        r == (100 * completed) % total
    IN  IF 2 * r < total THEN q
        ELSE IF 2 * r > total THEN q + 1
        ELSE IF q % 2 = 0 THEN q ELSE q + 1

\* dashboard: the module progress list, sorted by module name
ModuleSummary(views) ==
    LET names == {Strip(views[k].module_name) : k \in 1..Len(views)} \ {sEmpty}
        entry(m) ==
            LET total     == Cardinality({k \in 1..Len(views) :
                                 Strip(views[k].module_name) = m})
                completed == Cardinality({k \in 1..Len(views) :
                                 /\ Strip(views[k].module_name) = m
                                 /\ views[k].status = "Completed"})
            IN  [module |-> m, total |-> total, completed |-> completed,
                 percent |-> IF total = 0 THEN 0 ELSE RoundPercent(completed, total)]
    IN  [k \in 1..Cardinality(names) |->
            entry(CHOOSE m \in names :
                     Cardinality({x \in names : StrLess(x, m)}) = k - 1)]

\* dashboard: the views with a given deadline state, in list order
Bucket(views, state) ==
    LET idx == {k \in 1..Len(views) : views[k].deadline_state = state}
    IN  [n \in 1..Cardinality(idx) |->
            views[CHOOSE k \in idx : Cardinality({j \in idx : j < k}) = n - 1]]

\* dashboard: the counters and lists built while the rows are walked
Aggregate(views) ==
    LET withStatus(st) == Cardinality({k \in 1..Len(views) : views[k].status = st})
        inState(sts)   == Cardinality({k \in 1..Len(views) :
                                          views[k].deadline_state \in sts})
    IN  [tasks          |-> views,
         module_summary |-> ModuleSummary(views),
         attention      |-> [overdue   |-> Bucket(views, "overdue"),
                             due_today |-> Bucket(views, "due_today"),
                             due_soon  |-> Bucket(views, "due_soon")],
         stats |-> [total       |-> Len(views),
                    todo        |-> withStatus("To do"),
                    in_progress |-> withStatus("In progress"),
                    completed   |-> withStatus("Completed"),
                    overdue     |-> inState({"overdue"}),
                    due_soon    |-> inState({"due_today", "due_soon"}),
                    completion_percent |->
                        IF Len(views) = 0 THEN 0
                        ELSE RoundPercent(withStatus("Completed"), Len(views))]]

\* the views of the rows ids, in that order
TaskViews(store, ids, rd) ==
    [k \in 1..Len(ids) |->
        TaskView(store, ids[k], ClockAt(rd[1]), ClockAt(rd[2]).date,
                 ClockAt(rd[2 * k + 1]), ClockAt(rd[2 * k + 2]).date)]

\* dashboard, GET; rd are the readings of the clock: now, today, then those
\* of effective_priority row by row
DashboardGet(store, user, rd) ==
    Aggregate(TaskViews(store, SelectDashboard(store, user), rd))

\* export_csv: the data rows; rd are the readings of the clock made by
\* effective_priority row by row
ExportCsv(store, user, rd) ==
    LET ids == SelectExport(store, user)
    IN  [k \in 1..Len(ids) |->
            LET r        == store[ids[k]]
                due_time == NormalizeTimeHHMM(r.due_time)
                eff      == EffectivePriority(r.due_date, due_time, r.status,
                                r.priority, ClockAt(rd[2 * k - 1]),
                                ClockAt(rd[2 * k]).date)
            IN  [id          |-> ids[k],
                 module_name |-> r.module_name,
                 title       |-> r.title,
                 description |-> r.description,
                 deadline    |-> <<r.due_date, due_time>>,
                 status      |-> r.status,
                 priority    |-> eff.priority,
                 created_at  |-> r.created_at]]

----------------------------------------------------------------------------
(* Inputs: sessions and submitted forms.                                   *)

Users == {1, 2}

\* who a request comes from: a logged-in user, or nobody
Sessions == Users \cup {NoUser}

dNov05 == <<"2", "0", "2", "6", "-", "1", "1", "-", "0", "5">>

dNov06 == <<"2", "0", "2", "6", "-", "1", "1", "-", "0", "6">>

\* not zero-padded: strptime takes it
dNov7 == <<"2", "0", "2", "6", "-", "1", "1", "-", "7">>

dNov09 == <<"2", "0", "2", "6", "-", "1", "1", "-", "0", "9">>

dNov10 == <<"2", "0", "2", "6", "-", "1", "1", "-", "1", "0">>

dNov11 == <<"2", "0", "2", "6", "-", "1", "1", "-", "1", "1">>

\* no such day: strptime raises
dNov31 == <<"2", "0", "2", "6", "-", "1", "1", "-", "3", "1">>

dSoon == <<"s", "o", "o", "n">>

t0000 == <<"0", "0", ":", "0", "0">>

\* not zero-padded: strptime takes it
t930 == <<"9", ":", "3", "0">>

t2599 == <<"2", "5", ":", "9", "9">>

sCS == <<"C", "S">>

sMApadded == <<" ", "M", "A", " ">>

sEssay == <<"E", "s", "s", "a", "y">>

sQuiz == <<"Q", "u", "i", "z">>

sBlank == <<" ">>

sNotes == <<"n", "o", "t", "e", "s">>

sUrgent == <<"U", "r", "g", "e", "n", "t">>

Form(module_name, title, due_date, due_time, description, priority) ==
    [module_name |-> module_name, title |-> title, due_date |-> due_date,
     due_time |-> due_time, description |-> description, priority |-> priority]

\* forms that pass the validation
ValidForms ==
    {Form(sCS, sEssay, dNov06, t930, sEmpty, sLow),
     Form(sMApadded, sEssay, dNov7, sEmpty, sNotes, sUrgent),
     Form(sCS, sQuiz, dNov06, t2599, sEmpty, sHigh)}

\* forms with a required field missing or blank, or a date that does not parse
InvalidForms ==
    {Form(sEmpty, sEssay, dNov06, t930, sEmpty, sLow),
     Form(sCS, sBlank, dNov06, t930, sEmpty, sLow),
     Form(sCS, sEssay, sEmpty, t930, sEmpty, sLow),
     Form(sCS, sEssay, dNov31, t2599, sEmpty, sLow)}

Forms == ValidForms \cup InvalidForms

\* values of the status field of a status form
StatusInputs == {"In progress", "Completed", "Done"}

TaskIds == 1..MaxTasks

----------------------------------------------------------------------------------------------------------------------------------------
(* The requests.                                                           *)

NoForm == Form(sEmpty, sEmpty, sEmpty, sEmpty, sEmpty, sEmpty)

\* a request (op, session user, task id, form, status field) and the response
\* to it (flashed notice, redirect, rendered body), on its way to the client
Response(op, user, task_id, form, status, outcome, body) ==
    [op |-> op, user |-> user, task_id |-> task_id, form |-> form,
     status |-> status, flash |-> outcome.flash, redirect |-> outcome.redirect,
     body |-> body]

Rendered == [flash |-> NoFlash, redirect |-> "(none)"]

ToLogin == [flash |-> NoFlash, redirect |-> "login"]

\* no request is being served
Idle == Response("idle", NoUser, 0, NoForm, "", Rendered, << >>)

Init ==
    /\ tasks = << >>
    /\ clock = 0
    /\ resp = Idle

\* POST /dashboard
CreateRequest ==
    /\ resp = Idle
    /\ \E user \in Sessions, form \in Forms :
        LET out == DashboardPost(tasks, ClockAt(clock), user, form)
        IN  /\ DOMAIN out.tasks \subseteq TaskIds
            /\ tasks' = out.tasks
            /\ resp' = Response("create", user, 0, form, "", out, << >>)
            /\ UNCHANGED clock

\* POST /task/<task_id>/edit
EditRequest ==
    /\ resp = Idle
    /\ \E user \in Sessions, task_id \in TaskIds, form \in Forms :
        LET out == EditTask(tasks, user, task_id, form)
        IN  /\ tasks' = out.tasks
            /\ resp' = Response("edit", user, task_id, form, "", out, << >>)
            /\ UNCHANGED clock

\* POST /task/<task_id>/delete
DeleteRequest ==
    /\ resp = Idle
    /\ \E user \in Sessions, task_id \in TaskIds :
        LET out == DeleteTask(tasks, user, task_id)
        IN  /\ tasks' = out.tasks
            /\ resp' = Response("delete", user, task_id, NoForm, "", out, << >>)
            /\ UNCHANGED clock

\* POST /task/<task_id>/status
StatusRequest ==
    /\ resp = Idle
    /\ \E user \in Sessions, task_id \in TaskIds, status \in StatusInputs :
        LET out == UpdateStatus(tasks, user, task_id, status)
        IN  /\ tasks' = out.tasks
            /\ resp' = Response("status", user, task_id, NoForm, status, out, << >>)
            /\ UNCHANGED clock

\* GET /dashboard
DashboardRequest ==
    /\ resp = Idle
    /\ \E user \in Sessions :
        IF user = NoUser
        THEN /\ resp' = Response("dashboard", user, 0, NoForm, "", ToLogin, << >>)
             /\ UNCHANGED <<tasks, clock>>
        ELSE \E rd \in Readings(clock, 2 + 2 * Len(SelectDashboard(tasks, user))) :
                /\ resp' = Response("dashboard", user, 0, NoForm, "", Rendered,
                                    DashboardGet(tasks, user, rd))
                /\ clock' = rd[Len(rd)]
                /\ UNCHANGED tasks

\* GET /export/csv
ExportRequest ==
    /\ resp = Idle
    /\ \E user \in Sessions :
        IF user = NoUser
        THEN /\ resp' = Response("export", user, 0, NoForm, "", ToLogin, << >>)
             /\ UNCHANGED <<tasks, clock>>
        ELSE \E rd \in Readings(clock, 2 * Len(SelectExport(tasks, user))) :
                /\ resp' = Response("export", user, 0, NoForm, "", Rendered,
                                    ExportCsv(tasks, user, rd))
                /\ clock' = IF Len(rd) = 0 THEN clock ELSE rd[Len(rd)]
                /\ UNCHANGED tasks

\* the response leaves; the server keeps nothing of the request
Respond ==
    /\ resp # Idle
    /\ resp' = Idle
    /\ UNCHANGED <<tasks, clock>>

\* time passes between requests
Tick ==
    /\ resp = Idle
    /\ clock < MaxClock
    /\ clock' \in (clock + 1)..MaxClock
    /\ UNCHANGED <<tasks, resp>>

Next ==
    \/ CreateRequest
    \/ EditRequest
    \/ DeleteRequest
    \/ StatusRequest
    \/ DashboardRequest
    \/ ExportRequest
    \/ Respond
    \/ Tick

Spec == Init /\ [][Next]_vars

----------------------------------------------------------------------------
(* The deadline/priority functions applied to drawn arguments.             *)

EngineDates == {sEmpty, dSoon, dNov31, dNov05, dNov06, dNov7, dNov09, dNov10, dNov11}

EngineTimes == {sEmpty, t0000, t930, t2599}

EngineStatuses == Statuses \cup {"Done"}

EnginePriorities == Priorities \cup {sUrgent}

\* a row as the dashboard loop meets it and the clock as it reads it:
\* deadline_state and effective_priority computed for them
EngineCall ==
    /\ resp = Idle
    /\ \E due_date \in EngineDates, due_time \in EngineTimes,
          status \in EngineStatuses, priority \in EnginePriorities,
          rd \in Readings(clock, 2) :
        LET now   == ClockAt(rd[1])
            today == ClockAt(rd[2]).date
            row   == [due_date |-> due_date, due_time |-> due_time,
                      status |-> status, priority |-> priority]
        IN  /\ resp' = [op             |-> "engine",
                        row            |-> row,
                        now            |-> now,
                        today          |-> today,
                        deadline_state |-> DeadlineState(row, now, today),
                        effective      |-> EffectivePriority(due_date, due_time,
                                              status, priority, now, today)]
            /\ clock' = rd[2]
            /\ UNCHANGED tasks

NextEngine ==
    \/ EngineCall
    \/ Respond
    \/ Tick

SpecEngine == Init /\ [][NextEngine]_vars

----------------------------------------------------------------------------
(* Properties.                                                             *)

\* the rows a user's dashboard lists, in list order
VisibleRows(store, user) ==
    LET ids == SelectDashboard(store, user)
    IN  [k \in 1..Len(ids) |-> <<ids[k], store[ids[k]]>>]

ModifyingOps == {"edit", "delete", "status"}

\* C1: a step in which user A edits, deletes or status-updates with the id of
\* a task t owned by another user leaves t in the table with every stored
\* field unchanged, and leaves the rows A's dashboard lists unchanged.
C1_CrossOwnerRequestHasNoEffect ==
    [][\A t \in DOMAIN tasks :
          ( /\ resp'.op \in ModifyingOps
            /\ resp'.task_id = t
            /\ resp'.user \in Users
            /\ resp'.user # tasks[t].user_id )
          => /\ t \in DOMAIN tasks'
             /\ tasks'[t] = tasks[t]
             /\ VisibleRows(tasks', resp'.user) = VisibleRows(tasks, resp'.user)]_vars

\* C1 witness: a delete was requested by a user with the id of a task that
\* another user owns
C1_Witness ==
    /\ resp.op = "delete"
    /\ resp.user \in Users
    /\ resp.task_id \in DOMAIN tasks
    /\ tasks[resp.task_id].user_id \in Users \ {resp.user}
    /\ \E i \in DOMAIN tasks : tasks[i].user_id = resp.user

RequiredMissing(form) ==
    \/ Strip(form.module_name) = sEmpty
    \/ Strip(form.title) = sEmpty
    \/ Strip(form.due_date) = sEmpty

DateUnparseable(form) == StrptimeYmd(Strip(form.due_date)) = None

\* a time was given and does not parse
TimeMalformed(form) ==
    Strip(form.due_time) # sEmpty /\ StrptimeHM(Strip(form.due_time)) = None

\* the step aborted: nothing stored changed, a notice, back to the dashboard
AbortedStep ==
    /\ tasks' = tasks
    /\ resp'.flash \in {FlashRequired, FlashRequiredEdit, FlashInvalid}
    /\ resp'.redirect = "dashboard"

\* C2 as stated: a create or edit whose module, title or due date is missing,
\* or whose date or time does not parse, is aborted with a notice and a
\* redirect to the dashboard.
C2_InvalidDateOrTimeAborts ==
    [][( /\ resp'.op \in {"create", "edit"}
         /\ resp'.user \in Users
         /\ \/ RequiredMissing(resp'.form)
            \/ DateUnparseable(resp'.form)
            \/ TimeMalformed(resp'.form) )
       => AbortedStep]_vars

\* C2 amended: a create or edit whose module, title or due date is missing,
\* or whose due date does not parse, is aborted with a notice and a redirect
\* to the dashboard (a time that does not parse is replaced by 23:59 and
\* aborts nothing).
C2_InvalidDateAborts ==
    [][( /\ resp'.op \in {"create", "edit"}
         /\ resp'.user \in Users
         /\ \/ RequiredMissing(resp'.form)
            \/ DateUnparseable(resp'.form) )
       => AbortedStep]_vars

\* C2 witness: the owner's edit of a task was aborted for an unparseable date
C2_Witness ==
    /\ resp.op = "edit"
    /\ resp.user \in Users
    /\ Matches(tasks, resp.task_id, resp.user)
    /\ ~RequiredMissing(resp.form)
    /\ DateUnparseable(resp.form)
    /\ resp.flash = FlashInvalid

\* C3: a status-update by the owner changes the task's status and nothing
\* else in the table; an edit changes no task's status, creation time or
\* owner; and an edit followed by a status-update of the same task leaves the
\* table as the status-update followed by the edit does.
C3_StatusAndEditFrames ==
    [][/\ ( /\ resp'.op = "status"
            /\ Matches(tasks, resp'.task_id, resp'.user) )
          => /\ DOMAIN tasks' = DOMAIN tasks
             /\ \A i \in DOMAIN tasks :
                   tasks'[i] = IF i = resp'.task_id
                               THEN [tasks[i] EXCEPT !.status = tasks'[i].status]
                               ELSE tasks[i]
       /\ resp'.op = "edit"
          => /\ DOMAIN tasks' = DOMAIN tasks
             /\ \A i \in DOMAIN tasks :
                   /\ tasks'[i].status = tasks[i].status
                   /\ tasks'[i].created_at = tasks[i].created_at
                   /\ tasks'[i].user_id = tasks[i].user_id
             /\ \A st \in StatusInputs :
                   UpdateStatus(tasks', resp'.user, resp'.task_id, st).tasks
                     = EditTask(UpdateStatus(tasks, resp'.user, resp'.task_id, st).tasks,
                                resp'.user, resp'.task_id, resp'.form).tasks]_vars

\* C3 witness: the owner edited a task that a status-update had completed,
\* and the edit changed a stored field
C3_Witness ==
    /\ resp.op = "edit"
    /\ resp.flash = FlashUpdated
    /\ tasks[resp.task_id].status = "Completed"
    /\ tasks[resp.task_id].priority = sHigh
    /\ tasks[resp.task_id].title = sQuiz

\* C4: an edit, delete or status-update with a task id the current user does
\* not own (another user's, or no task's) reports the "not found or not
\* permitted" notice, never a success notice (an edit whose form fails
\* validation reports that instead).
C4_NotOwnedReportsNotPermitted ==
    [][( /\ resp'.op \in ModifyingOps
         /\ resp'.user \in Users
         /\ ~Matches(tasks, resp'.task_id, resp'.user) )
       => \/ resp'.flash = FlashNotPermitted
          \/ /\ resp'.op = "edit"
             /\ resp'.flash \in {FlashRequiredEdit, FlashInvalid}]_vars

\* the due moment of a row
DueMoment(row) == ParseDueDatetime(row.due_date, NormalizeTimeHHMM(row.due_time))

\* C5: the deadline state is 'completed' for a Completed row; otherwise
\* 'overdue' when the due moment is strictly before now, also when the due
\* date is today; otherwise 'due_today' when the due date is today; otherwise
\* 'due_soon' when the due date is 1 to 3 days ahead; otherwise, and when
\* the due moment does not parse, 'normal'.
C5_DeadlineStateOrder ==
    resp.op = "engine" =>
        LET row   == resp.row
            due   == DueMoment(row)
            state == resp.deadline_state
            late  == due # None /\ DtLess(due, resp.now)
            days  == due.date - resp.today
        IN  IF row.status = "Completed" THEN state = "completed"
            ELSE /\ late => state = "overdue"
                 /\ (due # None /\ ~late /\ days = 0) => state = "due_today"
                 /\ (due # None /\ 1 <= days /\ days <= 3) => state = "due_soon"
                 /\ (due = None \/ (~late /\ (days < 0 \/ days > 3)))
                       => state = "normal"

\* C5 witness: a row due today, at a moment before now, was classified
C5_Witness ==
    /\ resp.op = "engine"
    /\ resp.row.status = "To do"
    /\ DueMoment(resp.row) # None
    /\ DueMoment(resp.row).date = resp.today
    /\ DtLess(DueMoment(resp.row), resp.now)
    /\ resp.deadline_state = "overdue"

\* C6: effective_priority returns (normalised stored priority, false) for a
\* Completed row; otherwise (High, true) when the due moment is before now or
\* the due date is today; otherwise (Medium, true) when the due date is 1 to
\* 3 days ahead, whatever the stored priority; otherwise, and when the due
\* moment does not parse, (normalised stored priority, false).
C6_EffectivePriorityOverwrites ==
    resp.op = "engine" =>
        LET row    == resp.row
            due    == ParseDueDatetime(row.due_date, row.due_time)
            stored == IF row.priority \in Priorities THEN row.priority ELSE sMedium
            got    == resp.effective
            urgent == due # None /\ (DtLess(due, resp.now) \/ due.date = resp.today)
            days   == due.date - resp.today
        IN  IF row.status = "Completed"
            THEN got = [priority |-> stored, auto |-> FALSE]
            ELSE /\ urgent => got = [priority |-> sHigh, auto |-> TRUE]
                 /\ (due # None /\ 1 <= days /\ days <= 3)
                       => got = [priority |-> sMedium, auto |-> TRUE]
                 /\ (due = None \/ (~urgent /\ (days < 1 \/ days > 3)))
                       => got = [priority |-> stored, auto |-> FALSE]

\* C6 witness: a row stored High, 1 to 3 days ahead, came out (Medium, true)
C6_Witness ==
    /\ resp.op = "engine"
    /\ resp.row.status # "Completed"
    /\ resp.row.priority = sHigh
    /\ resp.effective = [priority |-> sMedium, auto |-> TRUE]

\* C7: the CSV export has exactly one data row per task of the user and none
\* of another user's, in the order of the dashboard list, which is by due
\* date ascending, then due time ascending.
C7_ExportInDeadlineOrder ==
    (resp.op = "export" /\ resp.user \in Users) =>
        LET rows == resp.body
            own  == {i \in DOMAIN tasks : tasks[i].user_id = resp.user}
        IN  /\ Len(rows) = Cardinality(own)
            /\ {rows[k].id : k \in 1..Len(rows)} = own
            /\ [k \in 1..Len(rows) |-> rows[k].id] = SelectDashboard(tasks, resp.user)
            /\ \A k \in 1..(Len(rows) - 1) :
                  ~DtLess(DueMoment(tasks[rows[k + 1].id]),
                          DueMoment(tasks[rows[k].id]))

\* C7, the part about rows alone: one data row per task of the user, none of
\* another user's, in the order of the dashboard list.
ExportRowsMatchDashboard ==
    (resp.op = "export" /\ resp.user \in Users) =>
        LET rows == resp.body
            own  == {i \in DOMAIN tasks : tasks[i].user_id = resp.user}
        IN  /\ Len(rows) = Cardinality(own)
            /\ {rows[k].id : k \in 1..Len(rows)} = own
            /\ [k \in 1..Len(rows) |-> rows[k].id] = SelectDashboard(tasks, resp.user)

RECURSIVE SumTotals(_)
SumTotals(summary) ==
    IF Len(summary) = 0 THEN 0
    ELSE summary[1].total + SumTotals(Tail(summary))

\* C8: in a dashboard view the totals of the per-module summary entries add
\* up to the global total, and no module has more completed than total.
C8_ModuleTotalsAddUp ==
    (resp.op = "dashboard" /\ resp.user \in Users) =>
        /\ SumTotals(resp.body.module_summary) = resp.body.stats.total
        /\ \A k \in 1..Len(resp.body.module_summary) :
              resp.body.module_summary[k].completed
                 <= resp.body.module_summary[k].total

\* C8 witness: a dashboard view of two modules, one with a completed task
C8_Witness ==
    /\ resp.op = "dashboard"
    /\ resp.user \in Users
    /\ Len(resp.body.module_summary) = 2
    /\ resp.body.stats.total = 2
    /\ resp.body.module_summary[1].completed = 1

\* C9: in a dashboard view a task shown 'due_soon' has priority Medium,
\* automatic; one shown 'overdue' or 'due_today' has priority High,
\* automatic; one shown 'completed' or 'normal' has its stored priority, not
\* automatic.
C9_StateAndPriorityAgree ==
    (resp.op = "dashboard" /\ resp.user \in Users) =>
        \A k \in 1..Len(resp.body.tasks) :
            LET v == resp.body.tasks[k]
            IN  /\ v.deadline_state = "due_soon"
                      => v.priority = sMedium /\ v.priority_auto
                /\ v.deadline_state \in {"overdue", "due_today"}
                      => v.priority = sHigh /\ v.priority_auto
                /\ v.deadline_state \in {"completed", "normal"}
                      => v.priority = v.priority_stored /\ ~v.priority_auto

WellFormed(row) ==
    /\ row.status \in Statuses
    /\ row.priority \in Priorities
    /\ row.module_name # sEmpty
    /\ row.title # sEmpty
    /\ StrptimeYmdHM(row.due_date \o <<" ">> \o row.due_time) # None

\* a form valid but for its time, which is missing or does not parse
ValidButForTime(form) ==
    /\ ~RequiredMissing(form)
    /\ ~DateUnparseable(form)
    /\ StrptimeHM(Strip(form.due_time)) = None

\* C10: every stored task has a status among the three, a priority among the
\* three, a module and a title that are not empty, and a due date and time
\* that make a due moment; a create or an owner's edit with a valid date and
\* a missing or malformed time is accepted and stores 23:59; a created task
\* starts 'To do'; a status-update with another value stores 'To do'.
C10_StoredTasksWellFormed ==
    /\ \A i \in DOMAIN tasks : WellFormed(tasks[i])
    /\ (resp.op = "create" /\ resp.flash = FlashAdded)
          => tasks[SetMax(DOMAIN tasks)].status = "To do"
    /\ (resp.op = "create" /\ resp.user \in Users /\ ValidButForTime(resp.form))
          => /\ resp.flash = FlashAdded
             /\ tasks[SetMax(DOMAIN tasks)].due_time = s2359
    /\ ( /\ resp.op = "edit"
         /\ Matches(tasks, resp.task_id, resp.user)
         /\ ValidButForTime(resp.form) )
          => /\ resp.flash = FlashUpdated
             /\ tasks[resp.task_id].due_time = s2359
    /\ ( /\ resp.op = "status"
         /\ Matches(tasks, resp.task_id, resp.user)
         /\ resp.status \notin Statuses )
          => tasks[resp.task_id].status = "To do"

\* C10 witness: a create with a valid date and a malformed time was accepted
C10_Witness ==
    /\ resp.op = "create"
    /\ TimeMalformed(resp.form)
    /\ resp.flash = FlashAdded
    /\ tasks[SetMax(DOMAIN tasks)].due_time = s2359

====
